---- MODULE Spec2Model ----
(***************************************************************************)
(* Lucro Certo: a transaction ledger (purchases, recipes, sales, waste)    *)
(* kept in a keyed store, and the inventory valuation derived from it.     *)
(*                                                                         *)
(* Numbers: the program computes with Python floats.  Quantities are       *)
(* integers here and money is an exact fraction [n, d] in lowest terms,    *)
(* so that cost_total / qty and qty * preco_medio are computed, not        *)
(* approximated.                                                           *)
(*                                                                         *)
(* Names: a name is a sequence of tokens, so that str.strip(), str.upper() *)
(* and str.startswith() are computed on it.                                *)
(***************************************************************************)
EXTENDS Integers, Sequences, FiniteSets, TLC

(***************************************************************************)
(* Bounds of the model.                                                    *)
(***************************************************************************)
MaxRows == 4        \* rows fed to get_inventory_dataframe
MaxQty == 3         \* largest quantity of one fed row
MaxTotal == 1       \* largest total (money) of one fed row
MaxIds == 6         \* ids the clock hands out
MaxEntries == 2     \* stock entries (compra, ajuste_manual) of one session
MaxRecipes == 1     \* recipes in the ledger
MaxSales == 2       \* sale summaries in the ledger
MaxWastes == 1      \* waste summaries in the ledger
MaxBuy == 1         \* largest quantity of one stock entry
MaxPay == 2         \* total of a receipt line
MaxIngQty == 1      \* largest quantity of one recipe ingredient
MaxIngredients == 2 \* ingredients of one recipe draft
MaxSaleQty == 1     \* largest quantity of one sale or product waste
MaxWaste == 1       \* largest quantity of one stock-item waste
MaxAdjusts == 2     \* ajuste_manual records in the ledger when "Editar" is used
MaxTime == 4        \* clock readings of the concurrent sessions
MaxStamps == 3      \* records the concurrent sessions save
MaxSteps == 3       \* clock reading up to which a recipe session starts a handler
MaxNewQty == 1      \* largest "Nova Qtd" of "Editar"

(***************************************************************************)
(* Exact fractions.                                                        *)
(***************************************************************************)
Abs(x) == IF x < 0 THEN -x ELSE x

RECURSIVE GCD(_, _)
GCD(a, b) == IF b = 0 THEN a ELSE GCD(b, a % b)

Frac(n, d) ==
    LET g == GCD(Abs(n), Abs(d))
        s == IF d < 0 THEN -1 ELSE 1
    IN  [n |-> (s * n) \div g, d |-> (s * d) \div g]

R(i) == [n |-> i, d |-> 1]
Zero == R(0)
RAdd(x, y) == Frac(x.n * y.d + y.n * x.d, x.d * y.d)
RSub(x, y) == Frac(x.n * y.d - y.n * x.d, x.d * y.d)
RMul(x, y) == Frac(x.n * y.n, x.d * y.d)
RDiv(x, y) == Frac(x.n * y.d, x.d * y.n)
RPos(x) == x.n > 0

(***************************************************************************)
(* Names.  Lower-case tokens and their upper-case forms; " " is            *)
(* whitespace.                                                             *)
(***************************************************************************)
UpperToken(t) ==
    CASE t = "leite" -> "LEITE"
      [] t = "ovos" -> "OVOS"
      [] t = "bolo" -> "BOLO"
      [] t = "farinha" -> "FARINHA"
      [] t = "Desp:" -> "DESP:"
      [] t = "venda:" -> "VENDA:"
      [] OTHER -> t

RECURSIVE Strip(_)
Strip(s) ==
    IF s = <<>> THEN s
    ELSE IF Head(s) = " " THEN Strip(Tail(s))
    ELSE IF s[Len(s)] = " " THEN Strip(SubSeq(s, 1, Len(s) - 1))
    ELSE s

Upper(s) == [i \in 1..Len(s) |-> UpperToken(s[i])]

\* variant: upper() without strip()
Normalize_UpperOnly(s) == Upper(s)

\* description.strip().upper()
Normalize(s) == Upper(Strip(s))

StartsWith(s, t) == Len(s) >= 1 /\ s[1] = t

LEITE == <<"LEITE">>
OVOS == <<"OVOS">>
BOLO == <<"BOLO">>

\* f"VENDA: {name}" and f"Desp: {name}"
VendaLabel(name) == <<"VENDA:">> \o name
DespLabel(name) == <<"Desp:">> \o name

(***************************************************************************)
(* get_inventory_dataframe                                                 *)
(***************************************************************************)
IncreasingTypes == {"compra", "ajuste_manual"}

DecreasingTypes == {"venda", "venda_produto", "desperdicio", "uso_receita", "uso_receita_negativo"}

\* the types the loop lets through
ValuationTypes ==
    {"compra", "venda", "desperdicio", "uso_receita", "uso_receita_negativo",
     "ajuste_manual", "venda_produto", "receita_produto"}

\* row.get('description') or row.get('product_name') or 'Unknown'
ItemOf(row) ==
    IF row.description # <<>> THEN row.description
    ELSE IF row.product_name # <<>> THEN row.product_name
    ELSE <<"Unknown">>

IsSummary(item) == StartsWith(item, "VENDA:") \/ StartsWith(item, "DESP:")

SkipsRow(row) == IsSummary(ItemOf(row)) \/ row.type \notin ValuationTypes

NewDados(unit_measure) ==
    [qtd |-> 0, custo_total |-> Zero, preco_medio |-> Zero, unidade |-> unit_measure]

\* variant: the cost of the purchase replaces the accumulated cost
ApplyIncrease_LastCost(d, qtd, total) ==
    [d EXCEPT !.qtd = @ + qtd, !.custo_total = total]

ApplyIncrease(d, qtd, total) ==
    [d EXCEPT !.qtd = @ + qtd, !.custo_total = RAdd(@, total)]

\* variant: the quantity is taken out only inside the "if preco_medio > 0" branch
ApplyDecrease_InsideIf(d, qtd) ==
    IF RPos(d.preco_medio)
    THEN [d EXCEPT !.qtd = @ - qtd, !.custo_total = RSub(@, RMul(R(qtd), d.preco_medio))]
    ELSE d

ApplyDecrease(d, qtd) ==
    [d EXCEPT !.qtd = @ - qtd,
              !.custo_total = IF RPos(d.preco_medio)
                              THEN RSub(@, RMul(R(qtd), d.preco_medio))
                              ELSE @]

\* variant: the average is computed once and kept
Recalculate_FirstOnly(d) ==
    IF d.qtd > 0 /\ d.preco_medio = Zero
    THEN [d EXCEPT !.preco_medio = RDiv(d.custo_total, R(d.qtd))]
    ELSE d

Recalculate(d) ==
    IF d.qtd > 0
    THEN [d EXCEPT !.preco_medio = RDiv(d.custo_total, R(d.qtd))]
    ELSE d

\* one iteration of the loop over the rows
ProcessRow(est, row) ==
    IF SkipsRow(row) THEN est
    ELSE
      LET item == ItemOf(row)
          d0 == IF item \in DOMAIN est THEN est[item] ELSE NewDados(row.unit_measure)
          d1 == IF row.type \in IncreasingTypes THEN ApplyIncrease(d0, row.qty, row.total)
                ELSE IF row.type \in DecreasingTypes THEN ApplyDecrease(d0, row.qty)
                ELSE d0
          d2 == Recalculate(d1)
      IN  [x \in (DOMAIN est) \cup {item} |-> IF x = item THEN d2 ELSE est[x]]

EmptyEstoque == [x \in {} |-> NewDados("UN")]

RECURSIVE EstoqueOf(_)
EstoqueOf(transactions) ==
    IF transactions = <<>> THEN EmptyEstoque
    ELSE ProcessRow(EstoqueOf(SubSeq(transactions, 1, Len(transactions) - 1)),
                    transactions[Len(transactions)])

\* the rows of the returned frame: "Qtd em Estoque", "Preco Medio", "Valor Total"
InventoryRow(d) ==
    [unidade |-> d.unidade, qtd |-> d.qtd, preco_medio |-> d.preco_medio,
     valor_total |-> RMul(R(d.qtd), d.preco_medio)]

get_inventory_dataframe(transactions, include_zero_stock) ==
    LET est == EstoqueOf(transactions)
        shown == {x \in DOMAIN est : include_zero_stock \/ est[x].qtd # 0}
    IN  [x \in shown |-> InventoryRow(est[x])]

(***************************************************************************)
(* The store: the records of the owner's partition, in scan order.         *)
(* A record is written with every field; NoId and <<>> stand for a key     *)
(* the record does not carry.                                              *)
(***************************************************************************)
NoId == 0

\* the record carries no created_at, no last_updated
NoTime == 0

Tx(t, desc) ==
    [id |-> NoId, type |-> t, description |-> desc, product_name |-> <<>>,
     qty |-> 0, unit_measure |-> "UN", total |-> Zero,
     related_sale_id |-> NoId, related_waste_id |-> NoId,
     product_id |-> NoId, waste_item |-> <<>>,
     ingredients |-> <<>>, total_cost |-> Zero,
     extras |-> <<>>, profit_margin |-> Zero, sale_price |-> Zero, lost_revenue |-> Zero,
     created_at |-> NoTime, last_updated |-> NoTime]

Ids(led) == {led[i].id : i \in DOMAIN led}

RecordOf(led, id) == led[CHOOSE i \in DOMAIN led : led[i].id = id]

\* container.upsert_item: insert, or full replace by id
upsert_item(led, body) ==
    IF body.id \in Ids(led)
    THEN [i \in DOMAIN led |-> IF led[i].id = body.id THEN body ELSE led[i]]
    ELSE Append(led, body)

\* save_transaction: id and created_at from the clock when the id is absent,
\* last_updated refreshed, description normalised, upsert
StampId(transaction_data, now) ==
    IF transaction_data.id = NoId
    THEN [transaction_data EXCEPT !.id = now, !.created_at = now]
    ELSE transaction_data

save_transaction(led, transaction_data, now) ==
    upsert_item(led, [StampId(transaction_data, now) EXCEPT !.last_updated = now,
                                                            !.description = Normalize(@)])

\* get_transactions: the scan of the partition
get_transactions(led) == led

\* variant: the skip list also holds the usage types
RenameMatches_SkipsUsage(item, old_names) ==
    /\ item.type \notin {"receita_produto", "venda_produto", "uso_receita", "uso_receita_negativo"}
    /\ item.description \in old_names

\* the records update_product_name rewrites
RenameMatches(item, old_names) ==
    /\ item.type \notin {"receita_produto", "venda_produto"}
    /\ item.description \in old_names

\* variant: the unit of the rewritten records is left as it was
update_product_name_KeepsUnit(led, old_names, new_name, new_unit) ==
    [i \in DOMAIN led |->
        IF RenameMatches(led[i], old_names)
        THEN [led[i] EXCEPT !.description = Normalize(new_name)]
        ELSE led[i]]

update_product_name(led, old_names, new_name, new_unit) ==
    [i \in DOMAIN led |->
        IF RenameMatches(led[i], old_names)
        THEN [led[i] EXCEPT !.description = Normalize(new_name), !.unit_measure = new_unit]
        ELSE led[i]]

update_product_name_count(led, old_names) ==
    Cardinality({i \in DOMAIN led : RenameMatches(led[i], old_names)})

\* container.delete_item on each id of targets; the deletes in failed raise
DeleteItems(led, targets, failed) ==
    SelectSeq(led, LAMBDA r : ~(r.id \in targets /\ r.id \notin failed))

\* delete_stock_items: should_delete of one scanned item
ShouldDelete(item, item_names, delete_all) ==
    delete_all \/ (item_names # {} /\ item.description \in item_names)

\* variant: the first point delete that raises ends the scan
RECURSIVE DeleteLoop_StopsAtFailure(_, _, _, _, _, _)
DeleteLoop_StopsAtFailure(all_trans, store, count, item_names, delete_all, failed) ==
    IF all_trans = <<>> THEN [ledger |-> store, count |-> count]
    ELSE LET item == Head(all_trans)
         IN  IF ~ShouldDelete(item, item_names, delete_all)
             THEN DeleteLoop_StopsAtFailure(Tail(all_trans), store, count, item_names,
                                            delete_all, failed)
             ELSE IF item.id \in failed
             THEN [ledger |-> store, count |-> count]
             ELSE DeleteLoop_StopsAtFailure(Tail(all_trans),
                                            SelectSeq(store, LAMBDA r : r.id # item.id),
                                            count + 1, item_names, delete_all, failed)

\* delete_stock_items: the loop over the scan; a point delete on an id in
\* failed raises, the exception is printed and the loop goes on
RECURSIVE DeleteLoop(_, _, _, _, _, _)
DeleteLoop(all_trans, store, count, item_names, delete_all, failed) ==
    IF all_trans = <<>> THEN [ledger |-> store, count |-> count]
    ELSE LET item == Head(all_trans)
         IN  IF ~ShouldDelete(item, item_names, delete_all)
             THEN DeleteLoop(Tail(all_trans), store, count, item_names, delete_all, failed)
             ELSE IF item.id \in failed
             THEN DeleteLoop(Tail(all_trans), store, count, item_names, delete_all, failed)
             ELSE DeleteLoop(Tail(all_trans), SelectSeq(store, LAMBDA r : r.id # item.id),
                             count + 1, item_names, delete_all, failed)

delete_stock_items(led, item_names, delete_all, failed) ==
    DeleteLoop(get_transactions(led), led, 0, item_names, delete_all, failed)

\* variant: the result is True whatever the store call did
delete_transaction_AlwaysTrue(led, item_id, raises) ==
    IF item_id \in Ids(led) /\ ~raises
    THEN [ledger |-> SelectSeq(led, LAMBDA r : r.id # item_id), result |-> TRUE]
    ELSE [ledger |-> led, result |-> TRUE]

\* delete_transaction: delete_item raises for an id the partition does not
\* hold, and when the store fails (raises); the exception is reported with
\* st.error and the result is False
delete_transaction(led, item_id, raises) ==
    IF item_id \in Ids(led) /\ ~raises
    THEN [ledger |-> SelectSeq(led, LAMBDA r : r.id # item_id), result |-> TRUE]
    ELSE [ledger |-> led, result |-> FALSE]

\* delete_stock_items(user_id, item_names): the ids it tries to delete
StockItemIds(led, item_names) ==
    {led[i].id : i \in {j \in DOMAIN led : led[j].description \in item_names}}

(***************************************************************************)
(* main: data preparation at the top of every run of the script.           *)
(***************************************************************************)
\* variant: only purchases make an item manageable
valid_ingredients_OnlyCompra(transactions) ==
    {transactions[i].description :
        i \in {j \in DOMAIN transactions : transactions[j].type \in {"compra"}}}

valid_ingredients(transactions) ==
    {transactions[i].description :
        i \in {j \in DOMAIN transactions : transactions[j].type \in {"compra", "ajuste_manual"}}}

df_estoque_full(transactions) == get_inventory_dataframe(transactions, TRUE)

df_estoque_manageable(transactions) ==
    LET full == df_estoque_full(transactions)
    IN  [x \in (DOMAIN full) \cap valid_ingredients(transactions) |-> full[x]]

\* the main stock table: manageable items with a quantity other than 0
df_estoque_view(transactions) ==
    LET full == df_estoque_full(transactions)
        kept == {x \in (DOMAIN full) \cap valid_ingredients(transactions) : full[x].qtd # 0}
    IN  [x \in kept |-> full[x]]

\* stock['Qtd em Estoque'].values[0] if not stock.empty else 0
CurrQty(full, name) == IF name \in DOMAIN full THEN full[name].qtd ELSE 0

\* recipe_options = {r['description']: r for r in recipes}: the last recipe of a name wins
RecipeOptions(transactions) ==
    {transactions[i] : i \in {j \in DOMAIN transactions :
        /\ transactions[j].type = "receita_produto"
        /\ \A k \in DOMAIN transactions :
              (k > j /\ transactions[k].type = "receita_produto")
                 => transactions[k].description # transactions[j].description}}

(***************************************************************************)
(* State.                                                                  *)
(*   ledger          the store's records of the owner, in scan order       *)
(*   clock           time.time() in microseconds, read by save_transaction *)
(*   recipe_items    st.session_state.recipe_items, the recipe draft       *)
(*   editing_recipe_id  st.session_state.editing_recipe_id               *)
(*   extra_costs     st.session_state.extra_costs, the draft's extra costs *)
(*   target_profit   st.session_state.target_profit, the margin in percent *)
(*   target_price    st.session_state.target_price, the sale price         *)
(*   last            the handler that ran last: its inputs, the ledger it  *)
(*                   read, the point deletes that failed                   *)
(*   entered         number of stock entries the session has saved         *)
(*   sess            per concurrent session: the records it still has to   *)
(*                   save and the store calls it has prepared              *)
(*   issued          the ids save_transaction has generated, in order      *)
(*   estoque         the accumulator of get_inventory_dataframe's loop     *)
(*   rows_done       number of rows the loop has processed                 *)
(*   last_row        the row processed last                                *)
(*   estoque_before  the accumulator before that row                       *)
(*   qty_in, qty_out per description, the quantities fed so far in         *)
(*                   increasing and in decreasing rows                     *)
(***************************************************************************)
VARIABLES ledger, clock, recipe_items, editing_recipe_id, last, entered,
          extra_costs, target_profit, target_price,
          sess, issued,
          estoque, rows_done, last_row, estoque_before, qty_in, qty_out

edVars == <<extra_costs, target_profit, target_price>>
appVars == <<ledger, clock, recipe_items, editing_recipe_id, last, entered, edVars>>
sesVars == <<sess, issued>>
valVars == <<estoque, rows_done, last_row, estoque_before, qty_in, qty_out>>
vars == <<ledger, clock, recipe_items, editing_recipe_id, last, entered,
          extra_costs, target_profit, target_price,
          sess, issued,
          estoque, rows_done, last_row, estoque_before, qty_in, qty_out>>

(***************************************************************************)
(* The rows fed to get_inventory_dataframe.                                *)
(***************************************************************************)
Qtys == 1..MaxQty
Totals == {R(t) : t \in 0..MaxTotal}

Row(t, desc, q, tot) ==
    [type |-> t, description |-> desc, product_name |-> <<>>, qty |-> q,
     total |-> tot, unit_measure |-> "ML"]

\* every stock-affecting type for LEITE; a second item, OVOS, bought and sold
StockRows ==
    {Row(t, LEITE, q, tot) : t \in {"compra", "ajuste_manual"}, q \in Qtys, tot \in Totals}
    \cup {Row(t, LEITE, q, Zero) :
            t \in {"venda", "venda_produto", "desperdicio", "uso_receita", "uso_receita_negativo"},
            q \in Qtys}
    \cup {Row("compra", OVOS, 1, tot) : tot \in Totals}
    \cup {Row("venda", OVOS, 1, Zero)}

\* rows the loop lets through without a stock effect, and rows it discards
OtherRows ==
    {Row("receita_produto", LEITE, 0, Zero),
     Row("venda_produto", VendaLabel(BOLO), 1, R(1)),
     Row("desperdicio", Normalize(DespLabel(LEITE)), 1, R(1)),
     Row("pagamento", LEITE, 1, R(1))}

Rows == StockRows \cup OtherRows

NoRow == Row("", <<>>, 0, Zero)

QtyFed(acc, row, types) ==
    IF row.type \in types
    THEN [x \in (DOMAIN acc) \cup {ItemOf(row)} |->
            (IF x \in DOMAIN acc THEN acc[x] ELSE 0) + (IF x = ItemOf(row) THEN row.qty ELSE 0)]
    ELSE acc

(***************************************************************************)
(* The session's inputs.                                                   *)
(***************************************************************************)
ItemInputs == {<<"leite">>, <<" ", "ovos">>}      \* item names as typed or read from a receipt
ProductInputs == {<<"bolo">>}                     \* "Nome do Produto Final"
RenameInputs == {<<"LEITE">>, <<" ", "farinha">>} \* "Nome Final"
BuyQtys == 1..MaxBuy
ReceiptQtys == 0..MaxBuy                          \* count * unit_size of a receipt line
ReceiptTotals == {R(MaxPay)}                      \* total of a receipt line
ManualTotals == {R(1)}                            \* "Total R$" of a manual entry
IngQtys == 1..MaxIngQty
SaleQtys == 1..MaxSaleQty
Prices == {R(3)}
LabelInputs == {<<"venda:", "leite">>}            \* an item name that begins like a sale label
NewQtys == 0..MaxNewQty                           \* "Nova Qtd"

NoOp ==
    [op |-> "init", before |-> <<>>, id |-> NoId, failed |-> {}, names |-> {},
     name |-> <<>>, qty |-> 0, ref |-> NoId,
     prev_op |-> "init", prev_id |-> NoId, prev_before |-> <<>>,
     unit |-> "", count |-> 0, result |-> TRUE, total |-> Zero, all |-> FALSE,
     session |-> 0, body |-> <<>>, snapshot |-> <<>>]

\* the sessions that are logged in as the owner at the same time
Sessions == {1, 2}

\* a session between handlers: nothing left to save, no store call prepared
NoSess == [todo |-> <<>>, calls |-> <<>>, snapshot |-> <<>>]

Init ==
    /\ ledger = <<>>
    /\ clock = 1
    /\ recipe_items = <<>>
    /\ editing_recipe_id = NoId
    /\ extra_costs = <<>>
    /\ target_profit = R(100)
    /\ target_price = Zero
    /\ last = NoOp
    /\ entered = 0
    /\ sess = [s \in Sessions |-> NoSess]
    /\ issued = <<>>
    /\ estoque = EmptyEstoque
    /\ rows_done = 0
    /\ last_row = NoRow
    /\ estoque_before = EmptyEstoque
    /\ qty_in = [x \in {} |-> 0]
    /\ qty_out = [x \in {} |-> 0]

\* successive save_transaction calls, each reading the clock after the previous upsert
RECURSIVE SaveAll(_, _, _)
SaveAll(led, recs, now) ==
    IF recs = <<>> THEN led
    ELSE SaveAll(save_transaction(led, Head(recs), now), Tail(recs), now + 1)

CanSave(n) == clock + n - 1 <= MaxIds

(***************************************************************************)
(* Estoque & Compras                                                       *)
(***************************************************************************)
\* "Salvar" of a read receipt with one line
SalvarCompra(name, final_qty, un, total) ==
    /\ CanSave(1)
    /\ ledger' = save_transaction(ledger,
                    [Tx("compra", name) EXCEPT !.qty = final_qty, !.unit_measure = un,
                                                 !.total = total], clock)
    /\ clock' = clock + 1
    /\ last' = [NoOp EXCEPT !.op = "compra", !.before = ledger, !.id = clock]
    /\ entered' = entered + 1
    /\ UNCHANGED <<recipe_items, editing_recipe_id, edVars, sesVars, valVars>>

\* "Add" of a manual entry
EntradaManual(text, qty, un, pr) ==
    LET name == Normalize(text)
    IN  /\ CanSave(1)
        /\ qty > 0 /\ RPos(pr) /\ name # <<>>
        /\ ledger' = save_transaction(ledger,
                        [Tx("ajuste_manual", name) EXCEPT !.qty = qty, !.unit_measure = un,
                                                            !.total = pr], clock)
        /\ clock' = clock + 1
        /\ last' = [NoOp EXCEPT !.op = "ajuste_manual", !.before = ledger, !.id = clock]
        /\ entered' = entered + 1
        /\ UNCHANGED <<recipe_items, editing_recipe_id, edVars, sesVars, valVars>>

\* "Excluir Historico" of a manageable item
ExcluirHistorico(item, failed) ==
    LET transactions == get_transactions(ledger)
    IN  /\ item \in DOMAIN df_estoque_manageable(transactions)
        /\ failed \subseteq StockItemIds(transactions, {item})
        /\ ledger' = DeleteItems(ledger, StockItemIds(transactions, {item}), failed)
        /\ last' = [NoOp EXCEPT !.op = "excluir_historico", !.before = ledger,
                                !.failed = failed, !.names = {item}]
        /\ UNCHANGED <<clock, recipe_items, editing_recipe_id, edVars, entered, sesVars, valVars>>

\* "Unificar": the selected items are renamed to one name and unit
Unificar(its, n, u) ==
    LET transactions == get_transactions(ledger)
    IN  /\ its \subseteq DOMAIN df_estoque_manageable(transactions)
        /\ Cardinality(its) > 1
        /\ ledger' = update_product_name(transactions, its, n, u)
        /\ last' = [NoOp EXCEPT !.op = "unificar", !.before = ledger, !.names = its, !.name = n,
                                !.unit = u,
                                !.count = update_product_name_count(transactions, its)]
        /\ UNCHANGED <<clock, recipe_items, editing_recipe_id, edVars, entered, sesVars, valVars>>

\* "Editar" of a manageable item: a rename when name or unit changed, then
\* an ajuste_manual record holding the difference to the current position
Editar(item, nn, nu, nq, nv) ==
    LET transactions == get_transactions(ledger)
        curr == df_estoque_manageable(transactions)[item]
        renamed == IF nn # item \/ nu # curr.unidade
                   THEN update_product_name(transactions, {item}, nn, nu)
                   ELSE ledger
        adjusts == nq # curr.qtd \/ nv # curr.valor_total
    IN  /\ item \in DOMAIN df_estoque_manageable(transactions)
        /\ CanSave(1)
        /\ ledger' = IF adjusts
                      THEN save_transaction(renamed,
                              [Tx("ajuste_manual", nn) EXCEPT
                                  !.qty = nq - curr.qtd, !.total = RSub(nv, curr.valor_total),
                                  !.unit_measure = nu], clock)
                      ELSE renamed
        /\ clock' = clock + 1
        /\ last' = [NoOp EXCEPT !.op = "editar", !.before = ledger, !.names = {item},
                                !.name = nn, !.unit = nu, !.qty = nq, !.total = nv,
                                !.id = IF adjusts THEN clock ELSE NoId]
        /\ UNCHANGED <<recipe_items, editing_recipe_id, edVars, entered, sesVars, valVars>>

(***************************************************************************)
(* Receitas & Produtos                                                     *)
(***************************************************************************)
UnitOptions(unidade_db) ==
    IF unidade_db = "G" THEN {"G", "KG"}
    ELSE IF unidade_db = "ML" THEN {"ML", "L", "Xicara (240ml)", "Colher (15ml)"}
    ELSE {"UN"}

QtdReal(qtd_input, unidade_input) ==
    IF unidade_input \in {"KG", "L"} THEN qtd_input * 1000
    ELSE IF unidade_input = "Xicara (240ml)" THEN qtd_input * 240
    ELSE IF unidade_input = "Colher (15ml)" THEN qtd_input * 15
    ELSE qtd_input

RECURSIVE SumCost(_)
SumCost(items) == IF items = <<>> THEN Zero ELSE RAdd(Head(items).cost, SumCost(Tail(items)))

\* total_cost of the draft: the costs of its ingredients and of its extras
TotalCost(items, extras) == RAdd(SumCost(items), SumCost(extras))

\* the run of the script that follows a handler of the editor: a new product
\* without a price gets twice its cost and the margin 100
DefaultPricing(items, extras, profit, price, editing) ==
    IF price = Zero /\ RPos(TotalCost(items, extras)) /\ editing = NoId
    THEN [target_profit |-> R(100), target_price |-> RMul(TotalCost(items, extras), R(2))]
    ELSE [target_profit |-> profit, target_price |-> price]

\* "Adicionar Ingrediente"
AdicionarIngrediente(ingrediente, qtd_input, unidade_input) ==
    LET manageable == df_estoque_manageable(get_transactions(ledger))
        added == Append(recipe_items,
               [name |-> ingrediente, qtd_real |-> QtdReal(qtd_input, unidade_input),
                unit_db |-> manageable[ingrediente].unidade,
                cost |-> RMul(R(QtdReal(qtd_input, unidade_input)),
                              manageable[ingrediente].preco_medio)])
        pricing == DefaultPricing(added, extra_costs, target_profit, target_price,
                                  editing_recipe_id)
    IN  /\ Len(recipe_items) < MaxIngredients
        /\ ingrediente \in DOMAIN manageable
        /\ unidade_input \in UnitOptions(manageable[ingrediente].unidade)
        /\ qtd_input > 0
        /\ recipe_items' = added
        /\ target_profit' = pricing.target_profit
        /\ target_price' = pricing.target_price
        /\ last' = [NoOp EXCEPT !.op = "ingrediente", !.before = ledger]
        /\ UNCHANGED <<ledger, clock, editing_recipe_id, extra_costs, entered, sesVars, valVars>>

\* "Salvar Produto"
SalvarProduto(product_name) ==
    /\ CanSave(1)
    /\ DOMAIN df_estoque_manageable(get_transactions(ledger)) # {}
    /\ product_name # <<>>
    /\ ledger' = save_transaction(ledger,
                    [Tx("receita_produto", product_name) EXCEPT
                        !.id = editing_recipe_id,
                        !.ingredients = recipe_items, !.extras = extra_costs,
                        !.total_cost = TotalCost(recipe_items, extra_costs),
                        !.profit_margin = target_profit, !.sale_price = target_price],
                    clock)
    /\ clock' = clock + 1
    /\ recipe_items' = <<>>
    /\ extra_costs' = <<>>
    /\ target_profit' = R(100)
    /\ target_price' = Zero
    /\ editing_recipe_id' = NoId
    /\ last' = [NoOp EXCEPT !.op = "receita", !.before = ledger,
                            !.id = IF editing_recipe_id = NoId THEN clock ELSE editing_recipe_id,
                            !.ref = editing_recipe_id,
                            !.total = TotalCost(recipe_items, extra_costs)]
    /\ UNCHANGED <<entered, sesVars, valVars>>

\* "Editar Completo": load_recipe_to_edit puts a saved recipe into the editor
CarregarReceita(recipe) ==
    /\ recipe \in {ledger[i] : i \in {j \in DOMAIN ledger : ledger[j].type = "receita_produto"}}
    /\ recipe_items' = recipe.ingredients
    /\ extra_costs' = recipe.extras
    /\ target_profit' = recipe.profit_margin
    /\ target_price' = recipe.sale_price
    /\ editing_recipe_id' = recipe.id
    /\ last' = [NoOp EXCEPT !.op = "carregar", !.before = ledger, !.id = recipe.id]
    /\ UNCHANGED <<ledger, clock, entered, sesVars, valVars>>

(***************************************************************************)
(* Vendas                                                                  *)
(***************************************************************************)
\* the ingredients of prod whose stock is low or negative
Missing(full, prod) ==
    {i \in DOMAIN prod.ingredients : CurrQty(full, prod.ingredients[i].name) <= 0}

\* variant: "curr < 0" for "curr <= 0"
UsageType_Strict(curr) == IF curr < 0 THEN "uso_receita_negativo" ELSE "uso_receita"

UsageType(curr) == IF curr <= 0 THEN "uso_receita_negativo" ELSE "uso_receita"

\* variant: the usage record is saved without related_sale_id
UsageRecord_Unlinked(ing, qtd_v, full, sale_id) ==
    [Tx(UsageType(CurrQty(full, ing.name)), ing.name) EXCEPT
        !.qty = ing.qtd_real * qtd_v, !.unit_measure = ing.unit_db]

UsageRecord(ing, qtd_v, full, sale_id) ==
    [Tx(UsageType(CurrQty(full, ing.name)), ing.name) EXCEPT
        !.qty = ing.qtd_real * qtd_v, !.unit_measure = ing.unit_db,
        !.related_sale_id = sale_id]

\* variant: the summary is saved under the id of the product
SaleRecord_ReusesId(prod, qtd_v, price_v) ==
    [Tx("venda_produto", VendaLabel(prod.description)) EXCEPT
        !.id = prod.id, !.product_name = prod.description,
        !.qty = qtd_v, !.total = RMul(R(qtd_v), price_v)]

SaleRecord(prod, qtd_v, price_v) ==
    [Tx("venda_produto", VendaLabel(prod.description)) EXCEPT
        !.product_id = prod.id, !.product_name = prod.description,
        !.qty = qtd_v, !.total = RMul(R(qtd_v), price_v)]

\* the records "Confirmar Venda" saves, in order; the summary takes its id from the clock
SaleRecords(transactions, prod, qtd_v, price_v, now) ==
    <<SaleRecord(prod, qtd_v, price_v)>>
    \o [i \in DOMAIN prod.ingredients |->
          UsageRecord(prod.ingredients[i], qtd_v, df_estoque_full(transactions), now)]

ConfirmarVenda(prod, qtd_v, price_v, conf_stock) ==
    LET transactions == get_transactions(ledger)
        recs == SaleRecords(transactions, prod, qtd_v, price_v, clock)
    IN  /\ prod \in RecipeOptions(transactions)
        /\ CanSave(Len(recs))
        /\ conf_stock
        /\ ledger' = SaveAll(ledger, recs, clock)
        /\ clock' = clock + Len(recs)
        /\ last' = [NoOp EXCEPT !.op = "venda", !.before = ledger, !.id = clock,
                                !.qty = qtd_v, !.name = prod.description, !.ref = prod.id,
                                !.total = price_v]
        /\ UNCHANGED <<recipe_items, editing_recipe_id, edVars, entered, sesVars, valVars>>

\* "Confirmar Venda" without the low-stock confirmation: an error, nothing is written
VendaRecusada(prod) ==
    LET transactions == get_transactions(ledger)
    IN  /\ prod \in RecipeOptions(transactions)
        /\ Missing(df_estoque_full(transactions), prod) # {}
        /\ last' = [NoOp EXCEPT !.op = "venda_recusada", !.before = ledger]
        /\ UNCHANGED <<ledger, clock, recipe_items, editing_recipe_id, edVars, entered, sesVars, valVars>>

\* variant: every record that carries a related_sale_id, whatever the sale
RelatedTransIds_AnySale(transactions, sale_id) ==
    {transactions[i].id :
        i \in {j \in DOMAIN transactions : transactions[j].related_sale_id # NoId}}

\* df_trans[df_trans['related_sale_id'] == sale['id']]['id']
RelatedTransIds(transactions, sale_id) ==
    {transactions[i].id :
        i \in {j \in DOMAIN transactions : transactions[j].related_sale_id = sale_id}}

\* "Excluir Venda": a point delete per related record, then one of the sale itself
ExcluirVenda(sale_id, failed) ==
    LET transactions == get_transactions(ledger)
        targets == RelatedTransIds(transactions, sale_id) \cup {sale_id}
    IN  /\ sale_id \in Ids(transactions)
        /\ RecordOf(transactions, sale_id).type = "venda_produto"
        /\ failed \subseteq targets
        /\ ledger' = DeleteItems(ledger, targets, failed)
        /\ last' = [NoOp EXCEPT !.op = "excluir_venda", !.before = ledger, !.id = sale_id,
                                !.failed = failed, !.prev_op = last.op,
                                !.prev_id = last.id, !.prev_before = last.before]
        /\ UNCHANGED <<clock, recipe_items, editing_recipe_id, edVars, entered, sesVars, valVars>>

(***************************************************************************)
(* Desperdicios                                                            *)
(***************************************************************************)
WasteRecord(wn, qty, wc, wr) ==
    [Tx("desperdicio", DespLabel(wn)) EXCEPT !.waste_item = wn, !.qty = qty, !.total = wc,
                                              !.lost_revenue = wr]

\* variant: the quantity of one unit, whatever the quantity lost
WasteUsageRecord_Unscaled(ing, qp, waste_id) ==
    [Tx("desperdicio", ing.name) EXCEPT
        !.qty = ing.qtd_real, !.unit_measure = ing.unit_db,
        !.related_waste_id = waste_id]

WasteUsageRecord(ing, qp, waste_id) ==
    [Tx("desperdicio", ing.name) EXCEPT
        !.qty = ing.qtd_real * qp, !.unit_measure = ing.unit_db,
        !.related_waste_id = waste_id]

\* "Registrar" with "Item Estoque"
DesperdicioItem(isel, qw) ==
    LET manageable == df_estoque_manageable(get_transactions(ledger))
    IN  /\ CanSave(1)
        /\ isel \in DOMAIN manageable
        /\ ledger' = save_transaction(ledger,
                        WasteRecord(isel, qw, RMul(R(qw), manageable[isel].preco_medio), Zero),
                        clock)
        /\ clock' = clock + 1
        /\ last' = [NoOp EXCEPT !.op = "desperdicio_item", !.before = ledger, !.id = clock,
                                !.qty = qw, !.name = isel]
        /\ UNCHANGED <<recipe_items, editing_recipe_id, edVars, entered, sesVars, valVars>>

\* "Registrar" with "Produto Final"
DesperdicioProduto(prod, qp) ==
    LET transactions == get_transactions(ledger)
        recs == <<WasteRecord(prod.description, 1, RMul(prod.total_cost, R(qp)),
                                  RMul(prod.sale_price, R(qp)))>>
                \o [i \in DOMAIN prod.ingredients |->
                      WasteUsageRecord(prod.ingredients[i], qp, clock)]
    IN  /\ prod \in RecipeOptions(transactions)
        /\ CanSave(Len(recs))
        /\ ledger' = SaveAll(ledger, recs, clock)
        /\ clock' = clock + Len(recs)
        /\ last' = [NoOp EXCEPT !.op = "desperdicio_produto", !.before = ledger, !.id = clock,
                                !.qty = qp, !.name = prod.description, !.ref = prod.id]
        /\ UNCHANGED <<recipe_items, editing_recipe_id, edVars, entered, sesVars, valVars>>

(***************************************************************************)
(* Sessions.  Every handler reads the ledger at the top of its run of the  *)
(* script and then writes; one session runs one handler at a time.         *)
(***************************************************************************)
CountOf(led, types) == Cardinality({i \in DOMAIN led : led[i].type \in types})

CanEnter == entered < MaxEntries
CanAuthor == CountOf(ledger, {"receita_produto"}) < MaxRecipes \/ editing_recipe_id # NoId
CanSell == CountOf(ledger, {"venda_produto"}) < MaxSales
CanWaste ==
    Cardinality({i \in DOMAIN ledger : ledger[i].type = "desperdicio"
                                          /\ ledger[i].related_waste_id = NoId}) < MaxWastes

StockEntry ==
    /\ CanEnter
    /\ \/ \E name \in ItemInputs, q \in ReceiptQtys, tot \in ReceiptTotals :
             SalvarCompra(name, q, "ML", tot)
       \/ \E name \in ItemInputs, q \in BuyQtys, pr \in ManualTotals :
             EntradaManual(name, q, "UN", pr)

\* a manual entry whose name begins like a summary label
LabelledEntry ==
    /\ CanEnter
    /\ \E name \in LabelInputs, q \in BuyQtys, pr \in ManualTotals :
          EntradaManual(name, q, "UN", pr)

Authoring ==
    \/ CanAuthor /\ \E ing \in DOMAIN df_estoque_manageable(ledger), q \in IngQtys,
                        u \in {"ML", "UN"} : AdicionarIngrediente(ing, q, u)
    \/ CanAuthor /\ \E name \in ProductInputs : SalvarProduto(name)

\* a product that is given the name of a stock item
NamesakeAuthoring == CanAuthor /\ SalvarProduto(<<"leite">>)

Reauthoring ==
    \E i \in DOMAIN ledger : ledger[i].type = "receita_produto" /\ CarregarReceita(ledger[i])

Selling ==
    CanSell /\ \E prod \in RecipeOptions(ledger), q \in SaleQtys, price \in Prices :
                  ConfirmarVenda(prod, q, price, TRUE)

\* "Preço Unitário de Venda" left at 0
SellingAtZero ==
    CanSell /\ \E prod \in RecipeOptions(ledger), q \in SaleQtys :
                  ConfirmarVenda(prod, q, Zero, TRUE)

Refusing == \E prod \in RecipeOptions(ledger) : VendaRecusada(prod)

Undoing ==
    \E sale_id \in Ids(ledger) :
       \E failed \in SUBSET (RelatedTransIds(ledger, sale_id) \cup {sale_id}) :
          ExcluirVenda(sale_id, failed)

Wasting ==
    /\ CanWaste
    /\ \/ \E isel \in DOMAIN df_estoque_manageable(ledger), qw \in 0..MaxWaste :
             DesperdicioItem(isel, qw)
       \/ \E prod \in RecipeOptions(ledger), qp \in SaleQtys : DesperdicioProduto(prod, qp)

Deleting ==
    \E item \in DOMAIN df_estoque_manageable(ledger) :
       \E failed \in SUBSET StockItemIds(ledger, {item}) : ExcluirHistorico(item, failed)

CanAdjust == CountOf(ledger, {"ajuste_manual"}) < MaxAdjusts

\* "Nome" keeps the item's name or takes a new one; "Novo Valor Total" keeps
\* the current value or is set to 0
Editing ==
    /\ CanAdjust
    /\ \E item \in DOMAIN df_estoque_manageable(ledger) :
          \E nn \in {item, <<" ", "farinha">>}, nu \in {"UN"}, nq \in NewQtys,
             nv \in {Zero, df_estoque_manageable(ledger)[item].valor_total} :
             Editar(item, nn, nu, nq, nv)

Renaming ==
    \E its \in SUBSET DOMAIN df_estoque_manageable(ledger),
       n \in RenameInputs, u \in {"ML", "UN"} : Unificar(its, n, u)

Next ==
    \/ StockEntry \/ Authoring \/ Selling \/ Refusing \/ Undoing
    \/ Wasting \/ Deleting \/ Renaming

\* sessions that stay in some of the menus
NextVendas == StockEntry \/ Authoring \/ Selling \/ Refusing \/ Undoing
NextDesperdicios == StockEntry \/ Authoring \/ Wasting \/ Deleting
NextEstoque == StockEntry \/ Authoring \/ Selling \/ Renaming

Spec == Init /\ [][Next]_vars
SpecVendas == Init /\ [][NextVendas]_vars
SpecDesperdicios == Init /\ [][NextDesperdicios]_vars
SpecEstoque == Init /\ [][NextEstoque]_vars

\* a session that enters stock under any name, authors recipes and sells
NextVisao == StockEntry \/ LabelledEntry \/ Authoring \/ Selling
SpecVisao == Init /\ [][NextVisao]_vars

\* a session that renames stock items, also one that shares its name with a product
NextRenomear == StockEntry \/ Authoring \/ NamesakeAuthoring \/ Selling \/ Renaming
SpecRenomear == Init /\ [][NextRenomear]_vars

\* a session that authors recipes and sells, also at a price of 0
NextValidacao == StockEntry \/ Authoring \/ Selling \/ SellingAtZero
SpecValidacao == Init /\ [][NextValidacao]_vars

\* a session that authors and re-saves recipes while the stock changes
HasRecipe == CountOf(ledger, {"receita_produto"}) > 0
Early == clock <= MaxSteps

NextReceitas ==
    \/ (Early /\ StockEntry)
    \/ (Early /\ Authoring)
    \/ (HasRecipe /\ Reauthoring)
    \/ (Early /\ HasRecipe /\ Selling)
    \/ (Early /\ HasRecipe /\ Wasting)
    \/ (HasRecipe /\ Renaming)
    \/ (Early /\ HasRecipe /\ Editing)
SpecReceitas == Init /\ [][NextReceitas]_vars

\* "Qtd" of a product waste
WasteQtys == 1..(MaxSaleQty + 1)

WastingProducts ==
    CanWaste /\ \E prod \in RecipeOptions(ledger), qp \in WasteQtys : DesperdicioProduto(prod, qp)

\* a session that authors recipes and records wastes of products
NextPerdas ==
    \/ Early /\ StockEntry
    \/ Early /\ Authoring
    \/ WastingProducts
SpecPerdas == Init /\ [][NextPerdas]_vars

\* a session that enters stock and edits it
NextAjuste == StockEntry \/ Editing
SpecAjuste == Init /\ [][NextAjuste]_vars

(***************************************************************************)
(* Calls of the delete functions of the store layer.                       *)
(***************************************************************************)
\* a call of delete_stock_items with any names and either value of delete_all
ChamarDeleteStockItems(item_names, delete_all, failed) ==
    LET r == delete_stock_items(ledger, item_names, delete_all, failed)
    IN  /\ ledger # <<>>
        /\ failed \subseteq Ids(ledger)
        /\ ledger' = r.ledger
        /\ last' = [NoOp EXCEPT !.op = "delete_stock_items", !.before = ledger,
                                !.names = item_names, !.all = delete_all,
                                !.failed = failed, !.count = r.count]
        /\ UNCHANGED <<clock, recipe_items, editing_recipe_id, edVars, entered, sesVars, valVars>>

\* a call of delete_transaction with an id the partition holds or does not hold
ChamarDeleteTransaction(item_id, raises) ==
    LET r == delete_transaction(ledger, item_id, raises)
    IN  /\ ledger # <<>>
        /\ ledger' = r.ledger
        /\ last' = [NoOp EXCEPT !.op = "delete_transaction", !.before = ledger,
                                !.id = item_id, !.result = r.result,
                                !.failed = IF raises THEN {item_id} ELSE {}]
        /\ UNCHANGED <<clock, recipe_items, editing_recipe_id, edVars, entered, sesVars, valVars>>

Clearing ==
    \E item_names \in SUBSET {ledger[i].description : i \in DOMAIN ledger},
       delete_all \in BOOLEAN, failed \in SUBSET Ids(ledger) :
       ChamarDeleteStockItems(item_names, delete_all, failed)

PointDeleting ==
    \E item_id \in 1..MaxIds, raises \in BOOLEAN : ChamarDeleteTransaction(item_id, raises)

\* a session that fills the ledger and calls the delete functions
NextExclusao ==
    \/ Early /\ StockEntry
    \/ Early /\ Authoring
    \/ Clearing
    \/ PointDeleting
SpecExclusao == Init /\ [][NextExclusao]_vars

(***************************************************************************)
(* Concurrent sessions of one owner.  A handler is no longer one step: it  *)
(* reads its snapshot, prepares its store calls, and the store serves the  *)
(* calls of the sessions one at a time, in any interleaving.  The store    *)
(* has no lock and upsert_item is called without a version check.          *)
(***************************************************************************)
Idle(s) == sess[s].todo = <<>> /\ sess[s].calls = <<>>

UpsertCall(body) == [call |-> "upsert", body |-> body]
DeleteCall(body) == [call |-> "delete", body |-> body]

\* the receipts a session saves: one line, or two lines
Receipts ==
    {<<[Tx("compra", <<"leite">>) EXCEPT !.qty = 1, !.unit_measure = "ML", !.total = R(MaxPay)]>>,
     <<[Tx("compra", <<"leite">>) EXCEPT !.qty = 1, !.unit_measure = "ML", !.total = R(MaxPay)],
       [Tx("compra", <<"ovos">>) EXCEPT !.qty = 1, !.unit_measure = "UN", !.total = R(MaxPay)]>>}

\* time passes while a session is about to read the clock
Tick ==
    /\ clock < MaxTime
    /\ \E s \in Sessions : sess[s].todo # <<>>
    /\ clock' = clock + 1
    /\ UNCHANGED <<ledger, recipe_items, editing_recipe_id, edVars, last, entered, sesVars, valVars>>

\* "Salvar" of a receipt: the loop will call save_transaction once per line
ComecarCompra(s, rows) ==
    /\ Idle(s)
    /\ Len(issued) + Len(sess[1].todo) + Len(sess[2].todo) + Len(rows) <= MaxStamps
    /\ sess' = [sess EXCEPT ![s] = [todo |-> rows, calls |-> <<>>, snapshot |-> ledger]]
    /\ UNCHANGED <<appVars, issued, valVars>>

\* save_transaction up to its store call: the id is read from the clock when
\* the record carries none, the description is normalised
Carimbar(s) ==
    LET transaction_data == Head(sess[s].todo)
        body == [StampId(transaction_data, clock) EXCEPT !.last_updated = clock,
                                                         !.description = Normalize(@)]
    IN  /\ sess[s].todo # <<>> /\ sess[s].calls = <<>>
        /\ clock <= MaxTime
        /\ sess' = [sess EXCEPT ![s].todo = Tail(@), ![s].calls = <<UpsertCall(body)>>]
        /\ issued' = IF transaction_data.id = NoId THEN Append(issued, clock) ELSE issued
        /\ UNCHANGED <<appVars, valVars>>

\* update_product_name: one scan, then an upsert of every rewritten item
RenameCalls(all_trans, old_names, new_name, new_unit) ==
    LET rewritten == update_product_name(all_trans, old_names, new_name, new_unit)
        matches == SelectSeq([i \in DOMAIN all_trans |-> i],
                             LAMBDA i : RenameMatches(all_trans[i], old_names))
    IN  [k \in DOMAIN matches |-> UpsertCall(rewritten[matches[k]])]

ComecarRenomear(s, old_names, new_name, new_unit) ==
    LET all_trans == get_transactions(ledger)
    IN  /\ Idle(s)
        /\ old_names # {}
        /\ old_names \subseteq DOMAIN df_estoque_manageable(all_trans)
        /\ RenameCalls(all_trans, old_names, new_name, new_unit) # <<>>
        /\ sess' = [sess EXCEPT ![s] =
                       [todo |-> <<>>, snapshot |-> all_trans,
                        calls |-> RenameCalls(all_trans, old_names, new_name, new_unit)]]
        /\ UNCHANGED <<appVars, issued, valVars>>

\* delete_stock_items: one scan, then a point delete of every item of the names
ComecarExcluir(s, item_names) ==
    LET all_trans == get_transactions(ledger)
        doomed == SelectSeq(all_trans, LAMBDA r : r.description \in item_names)
    IN  /\ Idle(s)
        /\ item_names \subseteq DOMAIN df_estoque_manageable(all_trans)
        /\ doomed # <<>>
        /\ sess' = [sess EXCEPT ![s] =
                       [todo |-> <<>>, snapshot |-> all_trans,
                        calls |-> [k \in DOMAIN doomed |-> DeleteCall(doomed[k])]]]
        /\ UNCHANGED <<appVars, issued, valVars>>

\* variant: an upsert of a record taken from a snapshot is served only if the
\* store still holds that record as the snapshot saw it
Atender_IfMatch(s) ==
    LET c == Head(sess[s].calls)
        rest == Tail(sess[s].calls)
        fresh == \/ c.body.id \notin Ids(sess[s].snapshot)
                 \/ /\ c.body.id \in Ids(ledger)
                    /\ RecordOf(ledger, c.body.id) = RecordOf(sess[s].snapshot, c.body.id)
    IN  /\ sess[s].calls # <<>>
        /\ clock <= MaxTime
        /\ ledger' = IF c.call = "upsert"
                      THEN (IF fresh THEN upsert_item(ledger, c.body) ELSE ledger)
                      ELSE DeleteItems(ledger, {c.body.id}, {})
        /\ clock' = clock + 1
        /\ last' = [NoOp EXCEPT !.op = c.call, !.session = s, !.id = c.body.id,
                                !.body = c.body, !.before = ledger,
                                !.snapshot = sess[s].snapshot]
        /\ sess' = [sess EXCEPT ![s].calls = rest,
                                 ![s].snapshot = IF rest = <<>> /\ sess[s].todo = <<>>
                                                 THEN <<>> ELSE @]
        /\ UNCHANGED <<recipe_items, editing_recipe_id, edVars, entered, issued, valVars>>

\* the store serves the next call of session s; a delete of an id that is
\* gone raises, and the exception is swallowed by the caller
Atender(s) ==
    LET c == Head(sess[s].calls)
        rest == Tail(sess[s].calls)
    IN  /\ sess[s].calls # <<>>
        /\ clock <= MaxTime
        /\ ledger' = IF c.call = "upsert" THEN upsert_item(ledger, c.body)
                      ELSE DeleteItems(ledger, {c.body.id}, {})
        /\ clock' = clock + 1
        /\ last' = [NoOp EXCEPT !.op = c.call, !.session = s, !.id = c.body.id,
                                !.body = c.body, !.before = ledger,
                                !.snapshot = sess[s].snapshot]
        /\ sess' = [sess EXCEPT ![s].calls = rest,
                                 ![s].snapshot = IF rest = <<>> /\ sess[s].todo = <<>>
                                                 THEN <<>> ELSE @]
        /\ UNCHANGED <<recipe_items, editing_recipe_id, edVars, entered, issued, valVars>>

\* a session runs the script on "Vendas": line 581 reads the ledger
AbrirVendas(s) ==
    /\ Idle(s)
    /\ sess[s].snapshot # get_transactions(ledger)
    /\ sess' = [sess EXCEPT ![s].snapshot = get_transactions(ledger)]
    /\ UNCHANGED <<appVars, issued, valVars>>

\* "Confirmar Venda" up to the first save: the summary is stored, the usage
\* records, built from the page's valuation, are still to be saved
ConfirmarVendaResumo(s, prod, qtd_v, price_v) ==
    LET recs == SaleRecords(sess[s].snapshot, prod, qtd_v, price_v, clock)
    IN  /\ Idle(s)
        /\ prod \in RecipeOptions(sess[s].snapshot)
        /\ CanSave(Len(recs))
        /\ ledger' = save_transaction(ledger, Head(recs), clock)
        /\ clock' = clock + 1
        /\ sess' = [sess EXCEPT ![s].todo = Tail(recs)]
        /\ last' = [NoOp EXCEPT !.op = "venda_resumo", !.session = s, !.id = clock,
                                !.before = ledger, !.snapshot = sess[s].snapshot]
        /\ UNCHANGED <<recipe_items, editing_recipe_id, edVars, entered, issued, valVars>>

\* the loop of "Confirmar Venda" saves the next usage record
SalvarUso(s) ==
    /\ sess[s].todo # <<>> /\ sess[s].calls = <<>>
    /\ ledger' = save_transaction(ledger, Head(sess[s].todo), clock)
    /\ clock' = clock + 1
    /\ sess' = [sess EXCEPT ![s].todo = Tail(@)]
    /\ last' = [NoOp EXCEPT !.op = "uso", !.session = s, !.id = clock, !.before = ledger,
                            !.snapshot = sess[s].snapshot]
    /\ UNCHANGED <<recipe_items, editing_recipe_id, edVars, entered, issued, valVars>>

\* "Excluir Venda" on the page the session has: the related ids come from
\* the page's df_trans; a delete of an id the store does not hold returns False
ExcluirVendaVista(s, sale_id) ==
    LET df_trans == sess[s].snapshot
        targets == RelatedTransIds(df_trans, sale_id) \cup {sale_id}
    IN  /\ Idle(s)
        /\ sale_id \in Ids(df_trans)
        /\ RecordOf(df_trans, sale_id).type = "venda_produto"
        /\ ledger' = DeleteItems(ledger, targets, {})
        /\ sess' = [sess EXCEPT ![s].snapshot = <<>>]
        /\ last' = [NoOp EXCEPT !.op = "excluir_venda_vista", !.session = s, !.id = sale_id,
                                !.before = ledger, !.snapshot = df_trans]
        /\ UNCHANGED <<clock, recipe_items, editing_recipe_id, edVars, entered, issued, valVars>>

\* two sessions at the sales counter: one records sales, the other deletes them
NextBalcao ==
    \/ Early /\ StockEntry
    \/ Early /\ Authoring
    \/ \E s \in Sessions : AbrirVendas(s)
    \/ \E s \in Sessions, q \in SaleQtys, price \in Prices :
          \E prod \in RecipeOptions(sess[s].snapshot) :
             CanSell /\ ConfirmarVendaResumo(s, prod, q, price)
    \/ \E s \in Sessions : SalvarUso(s)
    \/ \E s \in Sessions : \E sale_id \in Ids(sess[s].snapshot) : ExcluirVendaVista(s, sale_id)

SpecBalcao == Init /\ [][NextBalcao]_vars

NextSessoes ==
    \/ Tick
    \/ \E s \in Sessions, rows \in Receipts : ComecarCompra(s, rows)
    \/ \E s \in Sessions : Carimbar(s)
    \/ \E s \in Sessions, u \in {"UN"} :
          \E old_names \in SUBSET DOMAIN df_estoque_manageable(ledger) :
             ComecarRenomear(s, old_names, <<" ", "farinha">>, u)
    \/ \E s \in Sessions, item \in DOMAIN df_estoque_manageable(ledger) :
          ComecarExcluir(s, {item})
    \/ \E s \in Sessions : Atender(s)

SpecSessoes == Init /\ [][NextSessoes]_vars

(***************************************************************************)
(* get_inventory_dataframe fed row by row.                                 *)
(***************************************************************************)
\* the loop of get_inventory_dataframe takes the next row of its input
FeedRow(row) ==
    /\ rows_done < MaxRows
    /\ UNCHANGED <<appVars, sesVars>>
    /\ estoque' = ProcessRow(estoque, row)
    /\ rows_done' = rows_done + 1
    /\ last_row' = row
    /\ estoque_before' = estoque
    /\ qty_in' = QtyFed(qty_in, row, {"compra", "ajuste_manual"})
    /\ qty_out' = QtyFed(qty_out, row,
                         {"venda", "venda_produto", "desperdicio", "uso_receita", "uso_receita_negativo"})

NextVal == \E row \in Rows : FeedRow(row)

SpecVal == Init /\ [][NextVal]_vars

\* milk: two purchases of 1000 ml, for 5.00 and for 7.00, a recipe usage of
\* 200 ml and a waste of 100 ml
MilkRows ==
    <<Row("compra", LEITE, 1000, R(5)), Row("compra", LEITE, 1000, R(7)),
      Row("uso_receita", LEITE, 200, Zero), Row("desperdicio", LEITE, 100, Zero)>>

\* the loop takes the next row of a list; last.body is the list taken so far
FeedListRow(row) ==
    /\ rows_done < MaxRows
    /\ estoque' = ProcessRow(estoque, row)
    /\ rows_done' = rows_done + 1
    /\ last_row' = row
    /\ estoque_before' = estoque
    /\ qty_in' = QtyFed(qty_in, row, {"compra", "ajuste_manual"})
    /\ qty_out' = QtyFed(qty_out, row,
                         {"venda", "venda_produto", "desperdicio", "uso_receita", "uso_receita_negativo"})
    /\ last' = [NoOp EXCEPT !.op = "linha", !.body = Append(last.body, row)]
    /\ UNCHANGED <<ledger, clock, recipe_items, editing_recipe_id, edVars, entered, sesVars>>

\* the milk rows, in any order and with repetitions
NextLeite == \E k \in DOMAIN MilkRows : FeedListRow(MilkRows[k])
SpecLeite == Init /\ [][NextLeite]_vars

\* rows of two items: purchases at different costs, a manual entry, and a
\* decreasing row of each
OrderRows ==
    {Row("compra", LEITE, 1, Zero), Row("compra", LEITE, 1, R(MaxTotal)),
     Row("ajuste_manual", LEITE, 2, R(MaxTotal)), Row("uso_receita", LEITE, 1, Zero),
     Row("compra", OVOS, 1, R(1)), Row("venda", OVOS, 1, Zero)}

\* any list of these rows is valued
NextOrdem == \E row \in OrderRows : FeedListRow(row)
SpecOrdem == Init /\ [][NextOrdem]_vars

Fed(acc, x) == IF x \in DOMAIN acc THEN acc[x] ELSE 0

\* C1: every item's final quantity is the sum of the quantities of its
\* increasing rows minus the sum of the quantities of its decreasing rows.
Conservation ==
    \A x \in DOMAIN estoque : estoque[x].qtd = Fed(qty_in, x) - Fed(qty_out, x)

ConservationWitness ==
    \E x \in DOMAIN estoque :
        /\ Fed(qty_in, x) > 0 /\ Fed(qty_out, x) > 0
        /\ rows_done >= 3
        /\ estoque[x].qtd = Fed(qty_in, x) - Fed(qty_out, x)

\* the accumulator of the item of last_row before that row was processed
DadosBefore ==
    IF ItemOf(last_row) \in DOMAIN estoque_before
    THEN estoque_before[ItemOf(last_row)]
    ELSE NewDados(last_row.unit_measure)

\* C2: after a purchase of q units costing c on an item holding (qty0, avg0),
\* the average cost is (qty0*avg0 + c) / (qty0 + q) if qty0 > 0, else c / q.
WeightedAverageUpdate ==
    (rows_done > 0 /\ last_row.type = "compra" /\ ~IsSummary(ItemOf(last_row)))
    => estoque[ItemOf(last_row)].preco_medio =
         IF DadosBefore.qtd > 0
         THEN RDiv(RAdd(RMul(R(DadosBefore.qtd), DadosBefore.preco_medio), last_row.total),
                   R(DadosBefore.qtd + last_row.qty))
         ELSE RDiv(last_row.total, R(last_row.qty))

\* C3: a decreasing row (qty >= 0) never changes the average cost of its item.
AverageStableUnderDecrease ==
    (rows_done > 0
       /\ last_row.type \in {"venda", "venda_produto", "desperdicio", "uso_receita",
                              "uso_receita_negativo"}
       /\ ~IsSummary(ItemOf(last_row)))
    => estoque[ItemOf(last_row)].preco_medio = DadosBefore.preco_medio

(***************************************************************************)
(* Sales                                                                   *)
(***************************************************************************)
\* the records of led that belong to the sale: its summary and the records linked to it
SaleEvent(led, sale_id) ==
    {led[i].id : i \in {j \in DOMAIN led :
        led[j].id = sale_id \/ led[j].related_sale_id = sale_id}}

\* C4: when every point delete succeeds, deleting a sale removes the summary
\* and every record whose related_sale_id is the sale's id; every other record
\* is still there, unchanged and in place.
CascadeCompleteness ==
    (last.op = "excluir_venda" /\ last.failed = {})
    => ledger = SelectSeq(last.before,
                          LAMBDA r : r.id # last.id /\ r.related_sale_id # last.id)

CascadeCompletenessWitness ==
    /\ last.op = "excluir_venda" /\ last.failed = {}
    /\ Cardinality(SaleEvent(last.before, last.id)) >= 2
    /\ \E i \in DOMAIN ledger : ledger[i].related_sale_id # NoId
    /\ \A i \in DOMAIN ledger : ledger[i].id # last.id /\ ledger[i].related_sale_id # last.id

\* C5: a sale deletion ends with the summary and all its linked records gone,
\* or with all of them still present.
SaleDeletionAllOrNothing ==
    last.op = "excluir_venda"
    => \/ SaleEvent(last.before, last.id) \cap Ids(ledger) = {}
       \/ SaleEvent(last.before, last.id) \subseteq Ids(ledger)

WasteItemDecreases ==
    last.op = "desperdicio_item"
    => LET was == df_estoque_full(last.before)[last.name]
           now == df_estoque_full(ledger)[last.name]
       IN  /\ now.qtd = was.qtd - last.qty
           /\ now.preco_medio = was.preco_medio
           /\ RecordOf(ledger, last.id).total = RMul(R(last.qty), was.preco_medio)

\* the records of led that belong to the waste event: summary and linked records
WasteEvent(led, waste_id) ==
    {led[i].id : i \in {j \in DOMAIN led :
        led[j].id = waste_id \/ led[j].related_waste_id = waste_id}}

WasteSummaryIds(led) ==
    {led[i].id : i \in {j \in DOMAIN led :
        led[j].type = "desperdicio" /\ led[j].related_waste_id = NoId}}

\* C9: a deletion that removes records of a waste event removes the summary
\* and every record whose related_waste_id is the summary's id, and no other
\* record.
WasteDeletionCascade ==
    last.op = "excluir_historico"
    => \A w \in WasteSummaryIds(last.before) :
          LET removed == Ids(last.before) \ Ids(ledger)
          IN  (removed \cap WasteEvent(last.before, w) # {})
                 => removed = WasteEvent(last.before, w)

(***************************************************************************)
(* Rename                                                                  *)
(***************************************************************************)
RECURSIVE SumQtd(_, _)
SumQtd(est, names) ==
    IF names = {} THEN 0
    ELSE LET x == CHOOSE y \in names : TRUE
         IN  est[x].qtd + SumQtd(est, names \ {x})

RECURSIVE SumCustoTotal(_, _)
SumCustoTotal(est, names) ==
    IF names = {} THEN Zero
    ELSE LET x == CHOOSE y \in names : TRUE
         IN  RAdd(est[x].custo_total, SumCustoTotal(est, names \ {x}))

\* the new name is one of the aliases, or no record carries it
TargetFree ==
    \/ Normalize(last.name) \in last.names
    \/ \A i \in DOMAIN last.before : last.before[i].description # Normalize(last.name)

HasDecrease(led, names) ==
    \E i \in DOMAIN led :
        /\ led[i].description \in names
        /\ led[i].type \in {"venda", "venda_produto", "desperdicio", "uso_receita",
                            "uso_receita_negativo"}

\* C10 as stated: after the aliases are renamed to C, the quantity of C is the
\* sum of the aliases' quantities and the accumulated cost total of C is the
\* sum of their cost totals, as valued before the rename.
RenameMergeOriginal ==
    (last.op = "unificar" /\ TargetFree)
    => /\ EstoqueOf(ledger)[Normalize(last.name)].qtd
            = SumQtd(EstoqueOf(last.before), last.names)
       /\ EstoqueOf(ledger)[Normalize(last.name)].custo_total
            = SumCustoTotal(EstoqueOf(last.before), last.names)

\* C10 amended: the quantity of C is the sum of the aliases' quantities; the
\* accumulated cost total of C is the sum of their cost totals when no alias
\* has a decreasing transaction.
RenameMerge ==
    (last.op = "unificar" /\ TargetFree)
    => /\ EstoqueOf(ledger)[Normalize(last.name)].qtd
            = SumQtd(EstoqueOf(last.before), last.names)
       /\ ~HasDecrease(last.before, last.names)
            => EstoqueOf(ledger)[Normalize(last.name)].custo_total
                  = SumCustoTotal(EstoqueOf(last.before), last.names)

RenameMergeWitness ==
    /\ last.op = "unificar" /\ TargetFree
    /\ HasDecrease(last.before, last.names)
    /\ \A x \in last.names : EstoqueOf(last.before)[x].qtd # EstoqueOf(ledger)[Normalize(last.name)].qtd
    /\ EstoqueOf(ledger)[Normalize(last.name)].qtd = SumQtd(EstoqueOf(last.before), last.names)

\* C17: the valuation holds a position for a description only if a row of
\* that description with one of the seven stock-affecting types was fed;
\* zero-stock positions are counted.
QualifyingTypesOnly ==
    \A x \in DOMAIN estoque :
        x \in (DOMAIN qty_in) \cup (DOMAIN qty_out)

\* update_product_name rewrites the record: its description is in the alias
\* set and its type is neither receita_produto nor venda_produto
Rewritten(b) ==
    b.description \in last.names /\ b.type \notin {"receita_produto", "venda_produto"}

\* C18: update_product_name sets description (trimmed, upper-cased new name)
\* and unit_measure of exactly the records whose description is in the alias
\* set and whose type is neither receita_produto nor venda_produto; every
\* other record and field is unchanged; the count is the number rewritten.
RenameFrame ==
    last.op = "unificar"
    => /\ Len(ledger) = Len(last.before)
       /\ \A i \in DOMAIN last.before :
             IF Rewritten(last.before[i])
             THEN /\ ledger[i].description = Upper(Strip(last.name))
                  /\ ledger[i].unit_measure = last.unit
                  /\ [ledger[i] EXCEPT !.description = last.before[i].description,
                                       !.unit_measure = last.before[i].unit_measure]
                       = last.before[i]
             ELSE ledger[i] = last.before[i]
       /\ last.count = Cardinality({i \in DOMAIN last.before : Rewritten(last.before[i])})

RenameFrameWitness ==
    /\ last.op = "unificar"
    /\ last.count >= 3
    /\ \E i \in DOMAIN ledger :
          /\ last.before[i].type \in {"uso_receita", "uso_receita_negativo"}
          /\ ledger[i].description # last.before[i].description
    /\ \E i \in DOMAIN ledger :
          ledger[i].unit_measure # last.before[i].unit_measure
    /\ \E i \in DOMAIN ledger :
          /\ last.before[i].type = "receita_produto"
          /\ last.before[i].description \in last.names
          /\ ledger[i] = last.before[i]

(***************************************************************************)
(* Storage                                                                 *)
(***************************************************************************)
\* C11: every stored transaction has qty >= 0 and total >= 0.
StorageSign ==
    \A i \in DOMAIN ledger : ledger[i].qty >= 0 /\ ledger[i].total.n >= 0

\* C12: the ids save_transaction generates for records that carry none are
\* pairwise distinct, also across the saves of two concurrent sessions.
IdUniqueness ==
    \A i \in DOMAIN issued : \A j \in DOMAIN issued : i # j => issued[i] # issued[j]

(***************************************************************************)
(* Views                                                                   *)
(***************************************************************************)
Descriptions(led) == {led[i].description : i \in DOMAIN led}

HasEntry(led, x) ==
    \E i \in DOMAIN led : led[i].type \in {"compra", "ajuste_manual"} /\ led[i].description = x

\* the iff of the claim for the description x
ViewsAgree(x) ==
    /\ x \in DOMAIN df_estoque_manageable(ledger) <=> HasEntry(ledger, x)
    /\ x \in DOMAIN df_estoque_view(ledger)
          <=> (HasEntry(ledger, x) /\ CurrQty(df_estoque_full(ledger), x) # 0)

StaleWrite ==
    /\ last.op = "upsert"
    /\ last.id \in Ids(last.snapshot)
    /\ \/ last.id \notin Ids(last.before)
       \/ RecordOf(last.before, last.id) # RecordOf(last.snapshot, last.id)

\* C14: a write made from a stale snapshot goes through: the store then holds
\* the record as the stale snapshot had it (renamed), so what the other
\* session committed for that id in between, a deletion included, is undone.
LostUpdate ==
    StaleWrite
    => /\ last.id \in Ids(ledger)
       /\ RecordOf(ledger, last.id) = last.body
       /\ [last.body EXCEPT !.description = RecordOf(last.snapshot, last.id).description,
                            !.unit_measure = RecordOf(last.snapshot, last.id).unit_measure]
            = RecordOf(last.snapshot, last.id)

LostUpdateWitness ==
    /\ StaleWrite
    /\ last.id \notin Ids(last.before)
    /\ last.id \in Ids(ledger)
    /\ \E s \in Sessions : s # last.session /\ Idle(s)

(***************************************************************************)
(* Recipes                                                                 *)
(***************************************************************************)
IngredientCosts(recipe) == [k \in DOMAIN recipe.ingredients |-> recipe.ingredients[k].cost]

\* C15: a step that is not a save of the recipe from the editor leaves the
\* stored total_cost and the stored ingredient costs of every recipe that is
\* still in the ledger as they were.
RecipeCostImmutability ==
    [][\A i \in DOMAIN ledger :
          (ledger[i].type = "receita_produto"
             /\ ~(last'.op = "receita" /\ last'.id = ledger[i].id))
          => \A j \in DOMAIN ledger' :
                ledger'[j].id = ledger[i].id
                => /\ ledger'[j].total_cost = ledger[i].total_cost
                   /\ IngredientCosts(ledger'[j]) = IngredientCosts(ledger[i])]_vars

\* a recipe saved with a cost, and a later stock operation after which the
\* average cost of one of its ingredients is no longer the one it was saved at
RecipeCostImmutabilityWitness ==
    /\ last.op \in {"compra", "ajuste_manual", "editar", "venda", "unificar",
                     "desperdicio_item", "desperdicio_produto"}
    /\ \E i \in DOMAIN ledger :
          /\ ledger[i].type = "receita_produto"
          /\ RPos(ledger[i].total_cost)
          /\ ledger[i] \in {last.before[j] : j \in DOMAIN last.before}
          /\ \E k \in DOMAIN ledger[i].ingredients :
                ledger[i].ingredients[k].cost
                  # RMul(R(ledger[i].ingredients[k].qtd_real),
                         df_estoque_full(ledger)[ledger[i].ingredients[k].name].preco_medio)

\* the attempt that ran last was a recipe save with total cost 0, or a sale
\* with unit price 0
InvalidAttempt ==
    \/ last.op = "receita" /\ last.total = Zero
    \/ last.op = "venda" /\ last.total = Zero

\* C16: a recipe save with total cost 0 and a sale with unit price 0 are
\* rejected: the ledger holds no record written by the attempt.
AuthoringValidation == InvalidAttempt => ledger = last.before

(***************************************************************************)
(* Deletes                                                                 *)
(***************************************************************************)
\* the ids delete_stock_items has to attempt
Targets ==
    {last.before[i].id : i \in {j \in DOMAIN last.before :
        last.all \/ last.before[j].description \in last.names}}

\* C19: delete_stock_items attempts the records whose description is in the
\* names (every record with delete_all) and no other; a failed point delete
\* does not keep it from deleting the later matches; the count is the number
\* of deletes that succeeded.
BulkDelete ==
    last.op = "delete_stock_items"
    => /\ ledger = SelectSeq(last.before,
                             LAMBDA r : ~(r.id \in Targets /\ r.id \notin last.failed))
       /\ last.count = Cardinality(Targets \ last.failed)

BulkDeleteWitness ==
    /\ last.op = "delete_stock_items" /\ ~last.all
    /\ last.count >= 1
    /\ ledger # <<>>
    /\ \E i \in DOMAIN last.before : \E j \in DOMAIN last.before :
          /\ i < j
          /\ last.before[i].id \in Targets \cap last.failed
          /\ last.before[j].id \in Targets \ last.failed
          /\ last.before[i].id \in Ids(ledger)
          /\ last.before[j].id \notin Ids(ledger)
    /\ \E i \in DOMAIN last.before :
          last.before[i].id \notin Targets /\ last.before[i].id \in last.failed

\* C20 as stated: delete_transaction with an id the partition does not hold
\* returns False and leaves the ledger unchanged; with an id it holds it
\* removes exactly that record and returns True.
DeleteTransactionOriginal ==
    last.op = "delete_transaction"
    => IF last.id \notin Ids(last.before)
       THEN ~last.result /\ ledger = last.before
       ELSE last.result /\ ledger = SelectSeq(last.before, LAMBDA r : r.id # last.id)

\* C20 amended: with an existing id, the record is removed and the result is
\* True when the store's delete succeeds; when it raises, the result is False
\* and the ledger is unchanged, as for a missing id.
DeleteTransaction ==
    last.op = "delete_transaction"
    => IF last.id \in Ids(last.before) /\ last.failed = {}
       THEN last.result /\ ledger = SelectSeq(last.before, LAMBDA r : r.id # last.id)
       ELSE ~last.result /\ ledger = last.before

DeleteTransactionWitness ==
    /\ last.op = "delete_transaction"
    /\ last.id \notin Ids(last.before)
    /\ last.failed = {}
    /\ last.id < clock
    /\ ~last.result
    /\ ledger = last.before

(***************************************************************************)
(* Stored fields                                                           *)
(***************************************************************************)
\* C21: every stored description is trimmed and upper-cased, whether
\* save_transaction or update_product_name wrote it, and saving a stored
\* record again leaves its description as it is.
DescriptionNormalised ==
    \A i \in DOMAIN ledger :
        /\ ledger[i].description = Upper(Strip(ledger[i].description))
        /\ (ledger[i].description = <<>> \/ ledger[i].description[1] # " ")
        /\ save_transaction(ledger, ledger[i], clock)[i].description = ledger[i].description

\* a recipe typed in lower case was saved, and "Editar" has renamed a stock
\* item to a name typed in lower case with a leading blank
DescriptionNormalisedWitness ==
    /\ last.op = "editar" /\ last.name = <<" ", "farinha">>
    /\ \E i \in DOMAIN ledger :
          /\ ledger[i].type = "compra"
          /\ last.before[i].description = LEITE
          /\ ledger[i].description = <<"FARINHA">>
    /\ \E i \in DOMAIN ledger :
          ledger[i].type = "receita_produto" /\ ledger[i].description = BOLO

\* C22: every stored record carries the created_at of its first save, and a
\* recipe saved again under its id keeps it; last_updated is the time of the
\* latest save.
CreatedAtSetOnce ==
    /\ \A i \in DOMAIN ledger :
          /\ ledger[i].created_at # NoTime
          /\ ledger[i].id \in Ids(last.before)
                => ledger[i].created_at = RecordOf(last.before, ledger[i].id).created_at
    /\ last.op = "receita" => RecordOf(ledger, last.id).last_updated = clock - 1

(***************************************************************************)
(* Valuation scenarios                                                     *)
(***************************************************************************)
\* {qty, avg, value} after each prefix of the milk list
MilkExpected ==
    <<[qtd |-> 1000, preco_medio |-> Frac(5, 1000), valor_total |-> R(5)],
      [qtd |-> 2000, preco_medio |-> Frac(6, 1000), valor_total |-> R(12)],
      [qtd |-> 1800, preco_medio |-> Frac(6, 1000), valor_total |-> Frac(1080, 100)],
      [qtd |-> 1700, preco_medio |-> Frac(6, 1000), valor_total |-> Frac(1020, 100)]>>

\* C23: valuing purchase 1000 ml for 5.00, purchase 1000 ml for 7.00, recipe
\* usage 200 ml, waste 100 ml gives after each prefix {1000, 0.005, 5.00},
\* {2000, 0.006, 12.00}, {1800, 0.006, 10.80}, {1700, 0.006, 10.20}.
MilkScenario ==
    \A k \in DOMAIN MilkRows :
        last.body = SubSeq(MilkRows, 1, k)
        => LET out == get_inventory_dataframe(last.body, FALSE)[LEITE]
           IN  /\ out.qtd = MilkExpected[k].qtd
               /\ out.preco_medio = MilkExpected[k].preco_medio
               /\ out.valor_total = MilkExpected[k].valor_total
               /\ InventoryRow(estoque[LEITE]) = out

MilkScenarioWitness ==
    /\ last.op = "linha" /\ last.body = MilkRows
    /\ estoque[LEITE].qtd = 1700
    /\ estoque_before[LEITE].qtd = 1800

(***************************************************************************)
(* Waste of a product                                                      *)
(***************************************************************************)
\* the quantity one unit of the recipe takes of the stock item x
RECURSIVE QtdRealOf(_, _)
QtdRealOf(ingredients, x) ==
    IF ingredients = <<>> THEN 0
    ELSE (IF Head(ingredients).name = x THEN Head(ingredients).qtd_real ELSE 0)
         + QtdRealOf(Tail(ingredients), x)

\* the records a waste of last.qty units of the recipe last.ref has written:
\* one summary, then one decreasing record per ingredient
WasteRecordsWritten ==
    LET prod == RecordOf(last.before, last.ref)
        k == Len(prod.ingredients)
        b == Len(last.before)
    IN  /\ Len(ledger) = b + 1 + k
        /\ SubSeq(ledger, 1, b) = last.before
        /\ ledger[b + 1].id = last.id
        /\ ledger[b + 1].type = "desperdicio"
        /\ ledger[b + 1].related_waste_id = NoId
        /\ ledger[b + 1].total = RMul(prod.total_cost, R(last.qty))
        /\ ledger[b + 1].lost_revenue = RMul(prod.sale_price, R(last.qty))
        /\ \A i \in 1..k :
              /\ ledger[b + 1 + i].type \in DecreasingTypes
              /\ ledger[b + 1 + i].description = prod.ingredients[i].name
              /\ ledger[b + 1 + i].qty = prod.ingredients[i].qtd_real * last.qty
              /\ ledger[b + 1 + i].related_waste_id = ledger[b + 1].id

\* the valuation after a sale of last.qty units of the recipe last.ref
AfterSale ==
    LET prod == RecordOf(last.before, last.ref)
    IN  df_estoque_full(SaveAll(last.before,
                                SaleRecords(last.before, prod, last.qty, Zero, last.id),
                                last.id))

\* C24 as stated: the waste writes the summary (total = total_cost * n,
\* lost_revenue = sale_price * n) and one decreasing record per ingredient
\* (qty = qtd_real * n, related_waste_id = the summary's id), and the
\* valuation quantity of each ingredient drops by its qtd_real * n.
ProductWasteOriginal ==
    last.op = "desperdicio_produto"
    => /\ WasteRecordsWritten
       /\ \A i \in DOMAIN RecordOf(last.before, last.ref).ingredients :
             LET ing == RecordOf(last.before, last.ref).ingredients[i]
             IN  CurrQty(df_estoque_full(ledger), ing.name)
                   = CurrQty(df_estoque_full(last.before), ing.name) - ing.qtd_real * last.qty

\* C24 amended: the same records; the valuation quantity of each stock item
\* drops by n times the sum of qtd_real over the ingredients that name it,
\* which is the deduction a sale of n units makes.
ProductWaste ==
    last.op = "desperdicio_produto"
    => /\ WasteRecordsWritten
       /\ \A x \in DOMAIN df_estoque_full(ledger) :
             /\ CurrQty(df_estoque_full(ledger), x)
                  = CurrQty(df_estoque_full(last.before), x)
                    - last.qty * QtdRealOf(RecordOf(last.before, last.ref).ingredients, x)
             /\ CurrQty(df_estoque_full(ledger), x) = CurrQty(AfterSale, x)

\* two units lost of a recipe that names one stock item twice and has a cost
\* and a price
ProductWasteWitness ==
    /\ last.op = "desperdicio_produto" /\ last.qty = 2
    /\ LET prod == RecordOf(last.before, last.ref)
       IN  /\ Len(prod.ingredients) = 2
           /\ prod.ingredients[1].name = prod.ingredients[2].name
           /\ RPos(prod.total_cost) /\ RPos(prod.sale_price)
           /\ CurrQty(df_estoque_full(ledger), prod.ingredients[1].name)
                = CurrQty(df_estoque_full(last.before), prod.ingredients[1].name) - 4
    /\ RPos(ledger[Len(last.before) + 1].lost_revenue)

(***************************************************************************)
(* Links                                                                   *)
(***************************************************************************)
\* C25: every record that carries a related_sale_id refers to a sale summary
\* that is in the ledger, also when one session records a sale while another
\* deletes it from a page it loaded earlier.
NoOrphanUsage ==
    \A i \in DOMAIN ledger :
        ledger[i].related_sale_id # NoId
        => \E j \in DOMAIN ledger :
              ledger[j].id = ledger[i].related_sale_id /\ ledger[j].type = "venda_produto"

(***************************************************************************)
(* Order of the scan                                                       *)
(***************************************************************************)
\* the lists that hold the rows of transactions in another order
Reorderings(transactions) ==
    {[i \in DOMAIN transactions |-> transactions[p[i]]] : p \in Permutations(DOMAIN transactions)}

SameQty(a, b, x) == a[x].qtd = b[x].qtd

SameCost(a, b, x) == a[x].preco_medio = b[x].preco_medio /\ a[x].valor_total = b[x].valor_total

\* C26: every reordering of the list gives every item the same
\* quantity, the same average cost and the same total value.
OrderIndependence ==
    \A other \in Reorderings(last.body) :
        LET a == get_inventory_dataframe(last.body, TRUE)
            b == get_inventory_dataframe(other, TRUE)
        IN  /\ DOMAIN a = DOMAIN b
            /\ \A x \in DOMAIN a : SameQty(a, b, x) /\ SameCost(a, b, x)

(***************************************************************************)
(* Recipes and renamed stock items                                         *)
(***************************************************************************)
\* the quantity one unit of the recipe takes of the stock items of names
RECURSIVE QtdRealOfNames(_, _)
QtdRealOfNames(ingredients, names) ==
    IF ingredients = <<>> THEN 0
    ELSE (IF Head(ingredients).name \in names THEN Head(ingredients).qtd_real ELSE 0)
         + QtdRealOfNames(Tail(ingredients), names)

\* C27: a sale that follows a rename of stock item A to C, of a recipe saved
\* before with A as an ingredient, writes no record under the name A and
\* takes the used quantity from the valuation of C.
RenameKeepsRecipes ==
    [][(last.op = "unificar" /\ last'.op = "venda")
        => LET prod == RecordOf(ledger, last'.ref)
               C == Normalize(last.name)
               renamed == {prod.ingredients[i].name : i \in DOMAIN prod.ingredients}
                            \cap (last.names \ {C})
           IN  renamed # {}
               => /\ \A j \in DOMAIN ledger' :
                        ledger'[j].id \notin Ids(ledger) => ledger'[j].description \notin renamed
                  /\ CurrQty(df_estoque_full(ledger'), C)
                       = CurrQty(df_estoque_full(ledger), C)
                         - last'.qty * QtdRealOfNames(prod.ingredients, last.names \cup {C})]_vars

(***************************************************************************)
(* "Editar" and the next valuation                                         *)
(***************************************************************************)
\* C28: after "Editar" of a manageable item to a new quantity nq > 0 and a
\* new total value nv >= 0, the next valuation shows the item with quantity
\* nq and total value nv, whatever records the item had before.
StockEditReachesTarget ==
    (last.op = "editar" /\ last.qty > 0 /\ ~RPos(RSub(Zero, last.total)))
    => LET next_view == df_estoque_manageable(get_transactions(ledger))
           item == Normalize(last.name)
       IN  /\ item \in DOMAIN next_view
           /\ next_view[item].qtd = last.qty
           /\ next_view[item].valor_total = last.total

(***************************************************************************)
(* Pricing of saved recipes                                                *)
(***************************************************************************)
\* C29: every saved recipe with total_cost > 0 has
\* sale_price = total_cost * (1 + profit_margin / 100).
SavedPricingConsistent ==
    \A i \in DOMAIN ledger :
       (ledger[i].type = "receita_produto" /\ RPos(ledger[i].total_cost))
       => ledger[i].sale_price
            = RMul(ledger[i].total_cost,
                   RAdd(R(1), RDiv(ledger[i].profit_margin, R(100))))

(***************************************************************************)
(* The accumulator of get_inventory_dataframe                              *)
(***************************************************************************)
\* C30: after any prefix of the rows, every item whose accumulated quantity
\* is > 0 has custo_total = qtd * preco_medio, so the reported total value
\* equals the accumulated cost.
AccumulatorConsistent ==
    \A x \in DOMAIN estoque :
       estoque[x].qtd > 0
       => /\ estoque[x].custo_total = RMul(R(estoque[x].qtd), estoque[x].preco_medio)
          /\ InventoryRow(estoque[x]).valor_total = estoque[x].custo_total

\* an item bought twice at different cost and then partly taken out
AccumulatorConsistentWitness ==
    /\ rows_done >= 3
    /\ last_row.type \in DecreasingTypes
    /\ last_row.qty > 0
    /\ ItemOf(last_row) = LEITE
    /\ LEITE \in DOMAIN estoque
    /\ LEITE \in DOMAIN estoque_before
    /\ estoque[LEITE].qtd > 0
    /\ RPos(estoque[LEITE].custo_total)
    /\ estoque[LEITE].preco_medio \notin {R(0), R(1)}

====
